---------------------------- MODULE Spec2Model ----------------------------
(***************************************************************************)
(* A model of pystokab (src/pystokab.py): the StokabAPIClient session, its *)
(* request helpers and domain operations, the recursive resolution of      *)
(* Point objects against the API's related-point graph, and the pricing    *)
(* model (Price, Product, ProductList).                                    *)
(*                                                                         *)
(* One client and one caller are modelled.  The API server is the          *)
(* environment: its related-point graph and the projection each point      *)
(* names, the listings its batch queries may answer with and its price     *)
(* catalogue are fixed per behaviour (graph, proj, listings, catalog); its *)
(* token, batch and estimate responses are chosen per call.  Point         *)
(* construction is                                                         *)
(* modelled call by call: every Point.__init__ is one step, its frame is   *)
(* kept on `stack`, and at most one HTTP request is sent per step, so      *)
(* `lastReq` ranges over every request the client sends.                   *)
(***************************************************************************)
EXTENDS Integers, Sequences, FiniteSets, TLC

(***************************************************************************)
(* Bounds of the model.                                                    *)
(***************************************************************************)
MaxRelated == 2        \* longest relatedPointIds list the server serves
MaxEdges == 2          \* related-point references in the whole graph
MaxSessionEdges == 1   \* the same, in the behaviours of SessionSpec
MaxBatch == 2          \* rows in a batch (getByEstate/getByAddress) response
MaxProducts == 3       \* products in a priceEstimate response
MaxClock == 1          \* wall-clock seconds that may elapse
MaxTokenRequests == 2  \* requests to /connect/token
RecursionLimit == 4    \* nested Point constructions the interpreter allows

PointIds == {"P1", "P2", "P3"}
ProjectionNames == {"SWEREF99 TM", "RT90_2.5_GON_V_0:-15", "WGS84"}
TokenTypes == {"Bearer", "MAC"}
Tokens == {"t1", "t2"}
Ttls == {1, 2}
Fees == {0, 12}
MonthlyFees == {0, 1}
Messages == {"not found"}

None == "None"
NoException == [type |-> "none", arg |-> ""]
url == "https://api.example"

VARIABLES
    token_type,       \* StokabAPIClient.token_type
    token,            \* StokabAPIClient.token
    token_ttl,        \* StokabAPIClient.token_ttl
    token_acquired,   \* StokabAPIClient.token_acquired
    clock,            \* int(time.time())
    tokenReqs,        \* number of requests sent to /connect/token
    goodHeader,       \* "<token_type> <token>" of the last successful acquire_token
    lastReq,          \* the HTTP request sent most recently
    graph,            \* server: point id -> the ids its relatedPointIds names
    proj,             \* server: point id -> the projection its coordinates name
    listings,         \* server: what getByEstate and getByAddress may answer
    catalog,          \* server: the years and fees its price estimates draw on
    pc,               \* "idle", "running", "returned" or "raised"
    op,               \* the client operation being run (or last run)
    root,             \* get_point: the id asked for
    response,         \* the JSON response the operation is working on
    points,           \* initialize_points: the list built so far
    stack,            \* Point constructions in progress, innermost last
    fetched,          \* ids fetched by id (load_data) during the operation
    result,           \* the operation's return value
    exc               \* the exception the operation raised

session_vars == <<token_type, token, token_ttl, token_acquired>>
server_vars == <<graph, proj, listings, catalog>>
call_vars == <<pc, op, root, response, points, stack, fetched, result, exc>>
vars == <<token_type, token, token_ttl, token_acquired, clock, tokenReqs,
          goodHeader, lastReq, graph, proj, listings, catalog,
          pc, op, root, response, points,
          stack, fetched, result, exc>>

(***************************************************************************)
(* Helpers.                                                                *)
(***************************************************************************)
SeqsUpTo(S, n) == UNION {[1..k -> S] : k \in 0..n}

RECURSIVE SumLen(_, _)
SumLen(f, S) ==
    IF S = {} THEN 0
    ELSE LET x == CHOOSE y \in S : TRUE
         IN Len(f[x]) + SumLen(f, S \ {x})

Graphs(maxEdges) ==
    {g \in [PointIds -> SeqsUpTo(PointIds, MaxRelated)] : SumLen(g, PointIds) <= maxEdges}

(***************************************************************************)
(* The session and the request helpers.                                    *)
(***************************************************************************)
Session ==
    [token_type |-> token_type, token |-> token,
     token_ttl |-> token_ttl, token_acquired |-> token_acquired]

\* _authorization_headers: { 'Authorization': '<token_type> <token>' }
_authorization_headers(s) == {<<"Authorization", s.token_type \o " " \o s.token>>}

\* post(path, data, json, authenticate): the request handed to requests.post
post(s, path, authenticate) ==
    [method |-> "POST", url |-> url \o path,
     headers |-> IF authenticate THEN _authorization_headers(s) ELSE {}]

\* get(path, params): the request handed to requests.get
get(s, path) ==
    [method |-> "GET", url |-> url \o path, headers |-> _authorization_headers(s)]

\* The JSON bodies the token endpoint may answer with: any subset of the
\* three fields the client reads.
TokenResponses ==
    {d \in [keys : SUBSET {"token_type", "expires_in", "access_token"},
            token_type : TokenTypes \cup {None},
            expires_in : Ttls \cup {0},
            access_token : Tokens \cup {None}] :
        /\ ("token_type" \in d.keys) = (d.token_type # None)
        /\ ("expires_in" \in d.keys) = (d.expires_in # 0)
        /\ ("access_token" \in d.keys) = (d.access_token # None)}

ValidTokenResponses ==
    {d \in TokenResponses : d.keys = {"token_type", "expires_in", "access_token"}}

\* acquire_token, after the POST: the assignments of lines 28-32 in order, each
\* data[...] raising KeyError when the field is missing.
acquire_token(s, data, now) ==
    LET s1 == [s EXCEPT !.token_acquired = now]
        s2 == [s1 EXCEPT !.token_type = data.token_type]
        s3 == [s2 EXCEPT !.token_ttl = data.expires_in]
        s4 == [s3 EXCEPT !.token = data.access_token]
    IN  IF "token_type" \notin data.keys
            THEN [session |-> s1, exc |-> [type |-> "KeyError", arg |-> "token_type"]]
        ELSE IF "expires_in" \notin data.keys
            THEN [session |-> s2, exc |-> [type |-> "KeyError", arg |-> "expires_in"]]
        ELSE IF "access_token" \notin data.keys
            THEN [session |-> s3, exc |-> [type |-> "KeyError", arg |-> "access_token"]]
        ELSE [session |-> s4, exc |-> NoException]


(***************************************************************************)
(* The API server.                                                         *)
(***************************************************************************)
\* The JSON object the server holds for point p.
PointData(p) ==
    [pointId |-> p,
     relatedPointIds |-> [i \in 1..Len(graph[p]) |-> [name |-> graph[p][i]]],
     coordinates |-> [projection |-> proj[p]]]

\* GET availability/getByPointId: a one-element array.
GetByPointId(point_id) == <<PointData(point_id)>>

NoResponse == [kind |-> "none", message |-> "", rows |-> <<>>]

\* What the server may hold for a batch query: the error envelope
\* {"message": ...}, or the ids of the points it lists, each once.
Listings ==
    {[kind |-> "message", message |-> m, ids |-> <<>>] : m \in Messages}
    \cup {[kind |-> "list", message |-> "", ids |-> ids] :
              ids \in {l \in SeqsUpTo(PointIds, MaxBatch) :
                          \A i, j \in 1..Len(l) : l[i] = l[j] => i = j}}

\* GET availability/getByEstate and getByAddress: the JSON of a listing.
GetBatch(listing) ==
    [kind |-> listing.kind, message |-> listing.message,
     rows |-> [i \in 1..Len(listing.ids) |-> PointData(listing.ids[i])]]

(***************************************************************************)
(* Coordinates.                                                            *)
(***************************************************************************)
projections ==
    [n \in {"RT90_2.5_GON_V_0:-15", "SWEREF99 TM"} |-> "epsg:3021"]

KeyError(key) == [type |-> "KeyError", arg |-> key]

\* Mutant: a lookup that falls back to a default projection.
CoordinatesWithDefault(data) ==
    [exc |-> NoException,
     value |-> [source |-> IF data.projection \in DOMAIN projections
                           THEN projections[data.projection] ELSE "epsg:3021",
                dest |-> "epsg:4326"]]

\* Coordinates.__init__: projections[data['projection']] raises KeyError for a
\* name the table lacks; otherwise the pair is transformed to epsg:4326.
Coordinates(data) ==
    IF data.projection \in DOMAIN projections
    THEN [exc |-> NoException,
          value |-> [source |-> projections[data.projection], dest |-> "epsg:4326"]]
    ELSE [exc |-> KeyError(data.projection),
          value |-> [source |-> None, dest |-> None]]

(***************************************************************************)
(* Point.                                                                  *)
(***************************************************************************)
\* Point.load_data: GET getByPointId, then resp.json()[0].
load_data(s, point_id) ==
    [request |-> get(s, "/api/1.3/availability/getByPointId"),
     data |-> GetByPointId(point_id)[1]]

\* Mutant: a Point that remembers the ids already fetched and sends no second
\* request for them.
PointMemoized(s, point_id, data) ==
    LET load == (data = <<>>)
        loaded == load_data(s, point_id)
        known == \E i \in 1..Len(fetched) : fetched[i] = point_id
        d == IF load THEN loaded.data ELSE data[1]
        c == Coordinates(d.coordinates)
    IN  [requests |-> IF load /\ ~known THEN <<loaded.request>> ELSE <<>>,
         fetched |-> IF load /\ ~known THEN <<point_id>> ELSE <<>>,
         exc |-> c.exc,
         self |-> [point_id |-> point_id, data |-> d,
                   coordinates |-> c.value, related_points |-> <<>>]]

\* Mutant: a Point that loads its data by id even when data is supplied.
PointAlwaysLoads(s, point_id, data) ==
    LET loaded == load_data(s, point_id)
        c == Coordinates(loaded.data.coordinates)
    IN  [requests |-> <<loaded.request>>,
         fetched |-> <<point_id>>,
         exc |-> c.exc,
         self |-> [point_id |-> point_id, data |-> loaded.data,
                   coordinates |-> c.value, related_points |-> <<>>]]

\* Point.__init__ up to the loop of initialize: `data` is <<>> for None and
\* <<d>> for a supplied object d.  Returns the request sent (if any), the
\* exception raised (if any) and the object with no related point resolved yet.
Point(s, point_id, data) ==
    LET load == (data = <<>>)
        loaded == load_data(s, point_id)
        d == IF load THEN loaded.data ELSE data[1]
        c == Coordinates(d.coordinates)
    IN  [requests |-> IF load THEN <<loaded.request>> ELSE <<>>,
         fetched |-> IF load THEN <<point_id>> ELSE <<>>,
         exc |-> c.exc,
         self |-> [point_id |-> point_id, data |-> d,
                   coordinates |-> c.value, related_points |-> <<>>]]

\* The entry of relatedPointIds that initialize's loop handles next.
NextRelated(self) == self.data.relatedPointIds[Len(self.related_points) + 1]

\* Mutant: a loop that resolves no related point below the second level.
LoopDoneBelowSecondLevel(self) ==
    \/ Len(self.related_points) = Len(self.data.relatedPointIds)
    \/ Len(stack) >= 2

\* The loop of initialize has handled every entry of relatedPointIds.
LoopDone(self) == Len(self.related_points) = Len(self.data.relatedPointIds)

\* Mutant: related points collected newest first.
AppendRelatedFirst(self, obj) ==
    [self EXCEPT !.related_points = <<obj>> \o @]

\* self.related_points.append(obj)
AppendRelated(self, obj) ==
    [self EXCEPT !.related_points = Append(@, obj)]

(***************************************************************************)
(* Pricing.                                                                *)
(***************************************************************************)
Price(data) ==
    [contract_period |-> data.contractPeriodYears,
     otc |-> data.oneTimeFee,
     mrc |-> data.monthlyFee]

\* Price.total
PriceTotal(price) == price.otc + (price.mrc * (price.contract_period * 12))

Product(data) ==
    [product_id |-> data.productId, price |-> Price(data.price)]

\* Product.total
total(product) == PriceTotal(product.price)

\* Mutant: a loop that also replaces on an equal total.
RECURSIVE cheapestLoopLe(_, _, _)
cheapestLoopLe(products, i, cheapest) ==
    IF i > Len(products) THEN cheapest
    ELSE cheapestLoopLe(products, i + 1,
            IF cheapest = 0 \/ total(products[i]) <= total(products[cheapest])
            THEN i ELSE cheapest)

\* The loop of ProductList.cheapest from element i on.  `cheapest` is the
\* position of the product the variable refers to, 0 for None: a Product
\* object is always truthy, so `not cheapest` holds exactly for None.
RECURSIVE cheapestLoop(_, _, _)
cheapestLoop(products, i, cheapest) ==
    IF i > Len(products) THEN cheapest
    ELSE cheapestLoop(products, i + 1,
            IF cheapest = 0 \/ total(products[i]) < total(products[cheapest])
            THEN i ELSE cheapest)

\* ProductList.cheapest
cheapest(products) == cheapestLoop(products, 1, 0)

ProductData(offer) ==
    [productId : {"fiber"},
     price : [contractPeriodYears : offer.years,
              oneTimeFee : offer.fees,
              monthlyFee : offer.monthly]]

\* POST priceEstimate: [{"products": [...]}]
EstimateResponses(offer) ==
    {<<[products |-> ps]>> : ps \in SeqsUpTo(ProductData(offer), MaxProducts)}


(***************************************************************************)
(* Initial states: the client as its constructor leaves it.  __init__      *)
(* stores its arguments and calls acquire_token; a client exists only if   *)
(* that call returned, so the token response had all three fields.         *)
(***************************************************************************)
Unset == [token_type |-> None, token |-> None, token_ttl |-> 0, token_acquired |-> 0]

NoResult == [kind |-> "None", value |-> <<>>]

Constructed(data) ==
    LET r == acquire_token(Unset, data, 0)
    IN  /\ token_type = r.session.token_type
        /\ token = r.session.token
        /\ token_ttl = r.session.token_ttl
        /\ token_acquired = r.session.token_acquired
        /\ goodHeader = data.token_type \o " " \o data.access_token
        /\ lastReq = post(Unset, "/connect/token", FALSE)
        /\ tokenReqs = 1
        /\ clock = 0

Idle ==
    /\ pc = "idle"
    /\ op = "none"
    /\ root = None
    /\ response = NoResponse
    /\ points = <<>>
    /\ stack = <<>>
    /\ fetched = <<>>
    /\ result = NoResult
    /\ exc = NoException

\* The projections the server's points name: at most one point departs from
\* SWEREF99 TM.
Projs ==
    {f \in [PointIds -> ProjectionNames] :
        Cardinality({p \in PointIds : f[p] # "SWEREF99 TM"}) <= 1}

SmallCatalog == [years |-> {1}, fees |-> {0}, monthly |-> {1}]
FullCatalog == [years |-> {1, 2}, fees |-> Fees, monthly |-> MonthlyFees]

\* Any session, a server with few related points and one product.
SessionInit ==
    /\ \E data \in ValidTokenResponses : Constructed(data)
    /\ graph \in Graphs(MaxSessionEdges)
    /\ proj = [p \in PointIds |-> "SWEREF99 TM"]
    /\ listings = {[kind |-> "list", message |-> "", ids |-> <<"P1">>]}
    /\ catalog = SmallCatalog
    /\ Idle

\* One session, any related-point graph and projections.
PointInit ==
    /\ Constructed([keys |-> {"token_type", "expires_in", "access_token"},
                    token_type |-> "Bearer", expires_in |-> 1, access_token |-> "t1"])
    /\ graph \in Graphs(MaxEdges)
    /\ proj \in Projs
    /\ listings = Listings
    /\ catalog = SmallCatalog
    /\ Idle

\* One session, a point-free server, any products.
PricingInit ==
    /\ Constructed([keys |-> {"token_type", "expires_in", "access_token"},
                    token_type |-> "Bearer", expires_in |-> 1, access_token |-> "t1"])
    /\ graph = [p \in PointIds |-> <<>>]
    /\ proj = [p \in PointIds |-> "SWEREF99 TM"]
    /\ listings = {[kind |-> "list", message |-> "", ids |-> <<>>]}
    /\ catalog = FullCatalog
    /\ Idle

(***************************************************************************)
(* Steps shared by the operations.                                         *)
(***************************************************************************)
\* An exception leaves the operation: every frame is unwound and the caller
\* gets no value.
Raise(e) ==
    /\ pc' = "raised"
    /\ exc' = e
    /\ stack' = <<>>
    /\ points' = <<>>
    /\ result' = NoResult

\* One call Point(apiclient, point_id, data), from the operation or from the
\* loop of an enclosing Point.initialize.
Construct(point_id, data) ==
    IF Len(stack) >= RecursionLimit
    THEN /\ Raise([type |-> "RecursionError", arg |-> ""])
         /\ UNCHANGED <<lastReq, fetched>>
    ELSE LET r == Point(Session, point_id, data)
         IN  /\ lastReq' = IF r.requests = <<>> THEN lastReq ELSE r.requests[1]
             /\ fetched' = fetched \o r.fetched
             /\ IF r.exc # NoException
                THEN Raise(r.exc)
                ELSE /\ stack' = Append(stack, r.self)
                     /\ pc' = "running"
                     /\ UNCHANGED <<points, result, exc>>

\* initialize_points, before its loop: line 95 names `data`, which is not
\* defined in the method, so evaluating the raise statement's argument raises
\* NameError.
initialize_points(resp) ==
    IF resp.kind = "message"
    THEN [type |-> "NameError", arg |-> "data"]
    ELSE NoException

BatchOps == {"get_points_by_realestate", "get_points_by_address"}

BatchPath(o) ==
    IF o = "get_points_by_realestate"
    THEN "/api/1.3/availability/getByEstate"
    ELSE "/api/1.3/availability/getByAddress"

GetPoints(o) ==
    /\ pc = "idle"
    /\ \E listing \in listings :
        /\ response' = GetBatch(listing)
        /\ IF initialize_points(GetBatch(listing)) # NoException
           THEN Raise(initialize_points(GetBatch(listing)))
           ELSE /\ pc' = "running"
                /\ UNCHANGED <<stack, points, result, exc>>
    /\ op' = o
    /\ lastReq' = get(Session, BatchPath(o))
    /\ UNCHANGED <<session_vars, server_vars, clock, tokenReqs, goodHeader, root, fetched>>

(***************************************************************************)
(* The operations of the client.                                           *)
(***************************************************************************)
\* An explicit acquire_token() on the constructed client.
AcquireToken ==
    /\ pc = "idle"
    /\ tokenReqs < MaxTokenRequests
    /\ \E data \in TokenResponses :
        LET r == acquire_token(Session, data, clock)
        IN  /\ lastReq' = post(Session, "/connect/token", FALSE)
            /\ token_type' = r.session.token_type
            /\ token' = r.session.token
            /\ token_ttl' = r.session.token_ttl
            /\ token_acquired' = r.session.token_acquired
            /\ exc' = r.exc
            /\ pc' = IF r.exc = NoException THEN "returned" ELSE "raised"
            /\ goodHeader' = IF r.exc = NoException
                             THEN data.token_type \o " " \o data.access_token
                             ELSE goodHeader
    /\ tokenReqs' = tokenReqs + 1
    /\ op' = "acquire_token"
    /\ UNCHANGED <<server_vars, clock, root, response, points, stack, fetched, result>>

\* get_point(point_id)
GetPoint ==
    /\ pc = "idle"
    /\ \E point_id \in PointIds :
        /\ root' = point_id
        /\ Construct(point_id, <<>>)
    /\ op' = "get_point"
    /\ UNCHANGED <<session_vars, server_vars, clock, tokenReqs, goodHeader, response>>

\* get_points_by_realestate(realestate, estatesuffix)
GetPointsByRealestate == GetPoints("get_points_by_realestate")

\* get_points_by_address(city, street, number, littera)
GetPointsByAddress == GetPoints("get_points_by_address")

\* initialize_points: one iteration of its loop, Point(..., data=point).
InitializePointsNext ==
    /\ pc = "running"
    /\ op \in BatchOps
    /\ stack = <<>>
    /\ Len(points) < Len(response.rows)
    /\ LET point == response.rows[Len(points) + 1]
       IN  Construct(point.pointId, <<point>>)
    /\ UNCHANGED <<session_vars, server_vars, clock, tokenReqs, goodHeader, op, root, response>>

\* initialize_points: return points.
InitializePointsReturn ==
    /\ pc = "running"
    /\ op \in BatchOps
    /\ stack = <<>>
    /\ Len(points) = Len(response.rows)
    /\ pc' = "returned"
    /\ result' = [kind |-> "list", value |-> points]
    /\ UNCHANGED <<session_vars, server_vars, clock, tokenReqs, goodHeader, lastReq,
                   op, root, response, points, stack, fetched, exc>>

\* Point.initialize: one iteration of its loop, Point(point_id=related['name']).
ResolveRelated ==
    /\ pc = "running"
    /\ stack # <<>>
    /\ ~LoopDone(stack[Len(stack)])
    /\ Construct(NextRelated(stack[Len(stack)]).name, <<>>)
    /\ UNCHANGED <<session_vars, server_vars, clock, tokenReqs, goodHeader, op, root, response>>

\* Point.initialize and Point.__init__ return: the finished object goes to the
\* enclosing loop (related_points.append, points.append) or to the caller.
PointReturn ==
    /\ pc = "running"
    /\ stack # <<>>
    /\ LoopDone(stack[Len(stack)])
    /\ LET obj == stack[Len(stack)]
           rest == SubSeq(stack, 1, Len(stack) - 1)
       IN  IF rest # <<>>
           THEN /\ stack' = [rest EXCEPT ![Len(rest)] = AppendRelated(@, obj)]
                /\ UNCHANGED <<pc, points, result>>
           ELSE /\ stack' = <<>>
                /\ IF op = "get_point"
                   THEN /\ pc' = "returned"
                        /\ result' = [kind |-> "Point", value |-> obj]
                        /\ UNCHANGED points
                   ELSE /\ points' = Append(points, obj)
                        /\ UNCHANGED <<pc, result>>
    /\ UNCHANGED <<session_vars, server_vars, clock, tokenReqs, goodHeader, lastReq,
                   op, root, response, fetched, exc>>

Agreements ==
    {[frameworkAgreementId |-> "F1", name |-> "ramavtal", isStandard |-> TRUE,
      masterSystemId |-> "M1"]}

FrameworkAgreement(data) ==
    [agreement_id |-> data.frameworkAgreementId, name |-> data.name,
     standard |-> data.isStandard, system_id |-> data.masterSystemId]

Groups ==
    {[name |-> "group", clientNumber |-> "7", invoiceGroupId |-> "G1",
      invoiceGroupNumber |-> "1"]}

InvoiceGroup(data) ==
    [name |-> data.name, client_number |-> data.clientNumber,
     id |-> data.invoiceGroupId, number |-> data.invoiceGroupNumber]

\* get_framework_agreements()
GetFrameworkAgreements ==
    /\ pc = "idle"
    /\ \E resp \in SeqsUpTo(Agreements, 1) :
        result' = [kind |-> "list",
                   value |-> [i \in 1..Len(resp) |-> FrameworkAgreement(resp[i])]]
    /\ lastReq' = get(Session, "/api/1.3/frameworkAgreement")
    /\ pc' = "returned"
    /\ op' = "get_framework_agreements"
    /\ UNCHANGED <<session_vars, server_vars, clock, tokenReqs, goodHeader,
                   root, response, points, stack, fetched, exc>>

\* Mutant: a request helper that renews the token once its ttl has passed.
GetInvoiceGroupsRenewing ==
    /\ pc = "idle"
    /\ \E resp \in SeqsUpTo(Groups, 1) :
        result' = [kind |-> "list",
                   value |-> [i \in 1..Len(resp) |-> InvoiceGroup(resp[i])]]
    /\ \E data \in ValidTokenResponses :
        LET expired == clock >= token_acquired + token_ttl
            s == IF expired THEN acquire_token(Session, data, clock).session ELSE Session
        IN  /\ token_type' = s.token_type
            /\ token' = s.token
            /\ token_ttl' = s.token_ttl
            /\ token_acquired' = s.token_acquired
            /\ tokenReqs' = IF expired THEN tokenReqs + 1 ELSE tokenReqs
            /\ goodHeader' = s.token_type \o " " \o s.token
            /\ lastReq' = get(s, "/api/1.3/invoiceGroup")
    /\ pc' = "returned"
    /\ op' = "get_invoice_groups"
    /\ UNCHANGED <<server_vars, clock, root, response, points, stack, fetched, exc>>

\* get_invoice_groups()
GetInvoiceGroups ==
    /\ pc = "idle"
    /\ \E resp \in SeqsUpTo(Groups, 1) :
        result' = [kind |-> "list",
                   value |-> [i \in 1..Len(resp) |-> InvoiceGroup(resp[i])]]
    /\ lastReq' = get(Session, "/api/1.3/invoiceGroup")
    /\ pc' = "returned"
    /\ op' = "get_invoice_groups"
    /\ UNCHANGED <<session_vars, server_vars, clock, tokenReqs, goodHeader,
                   root, response, points, stack, fetched, exc>>

\* estimate(...): ProductList of resp.json()[0]['products'].
Estimate ==
    /\ pc = "idle"
    /\ \E resp \in EstimateResponses(catalog) :
        LET data == resp[1].products
        IN  result' = [kind |-> "ProductList",
                       value |-> [i \in 1..Len(data) |-> Product(data[i])]]
    /\ lastReq' = post(Session, "/api/1.3/priceEstimate", TRUE)
    /\ pc' = "returned"
    /\ op' = "estimate"
    /\ UNCHANGED <<session_vars, server_vars, clock, tokenReqs, goodHeader,
                   root, response, points, stack, fetched, exc>>

\* ProductList.cheapest() on the list estimate returned: the caller now holds
\* the list and the position of the product returned (0 for None).
Cheapest ==
    /\ pc = "returned"
    /\ op = "estimate"
    /\ op' = "cheapest"
    /\ result' = [kind |-> "cheapest",
                  value |-> [products |-> result.value,
                             cheapest |-> cheapest(result.value)]]
    /\ UNCHANGED <<session_vars, server_vars, clock, tokenReqs, goodHeader, lastReq,
                   pc, root, response, points, stack, fetched, exc>>

\* The caller takes the outcome of the operation; the client is idle again.
Finish ==
    /\ pc \in {"returned", "raised"}
    /\ pc' = "idle"
    /\ op' = "none"
    /\ root' = None
    /\ response' = NoResponse
    /\ points' = <<>>
    /\ stack' = <<>>
    /\ fetched' = <<>>
    /\ result' = NoResult
    /\ exc' = NoException
    /\ UNCHANGED <<session_vars, server_vars, clock, tokenReqs, goodHeader, lastReq>>

\* A second of wall-clock time passes.
Tick ==
    /\ pc = "idle"
    /\ clock < MaxClock
    /\ clock' = clock + 1
    /\ UNCHANGED <<session_vars, server_vars, tokenReqs, goodHeader, lastReq, call_vars>>

Resolution ==
    \/ InitializePointsNext
    \/ InitializePointsReturn
    \/ ResolveRelated
    \/ PointReturn

GetPointNext ==
    \/ GetPoint
    \/ ResolveRelated
    \/ PointReturn

PointNext ==
    \/ GetPoint
    \/ GetPointsByRealestate
    \/ GetPointsByAddress
    \/ Resolution

PricingNext ==
    \/ Estimate
    \/ Cheapest

SessionNext ==
    \/ AcquireToken
    \/ Tick
    \/ GetFrameworkAgreements
    \/ GetInvoiceGroups
    \/ PointNext
    \/ PricingNext
    \/ Finish

SessionSpec == SessionInit /\ [][SessionNext]_vars

PointSpec == PointInit /\ [][PointNext]_vars

GetPointSpec == PointInit /\ [][GetPointNext]_vars

\* The client runs synchronously: an operation that can take its next step
\* takes it.
FairGetPointSpec == GetPointSpec /\ WF_vars(ResolveRelated \/ PointReturn)

PricingSpec == PricingInit /\ [][PricingNext]_vars


(***************************************************************************)
(* Notions the properties are stated with.                                 *)
(***************************************************************************)
Range(f) == {f[i] : i \in DOMAIN f}

Succ(p) == Range(graph[p])

RECURSIVE ReachFrom(_, _)
ReachFrom(S, n) ==
    IF n = 0 THEN S ELSE ReachFrom(S \cup UNION {Succ(p) : p \in S}, n - 1)

\* The points reachable from p in the related-point graph, p included.
Reachable(p) == ReachFrom({p}, Cardinality(PointIds))

\* A cycle of the related-point graph can be reached from p.
CycleReachable(p) ==
    \E q \in Reachable(p) : q \in ReachFrom(Succ(q), Cardinality(PointIds))

\* Every point reachable from p names a projection of the lookup table.
WellFormed(p) == \A q \in Reachable(p) : proj[q] \in DOMAIN projections

\* The number of reference paths that start at p: p itself, and one per path
\* of each entry of its relatedPointIds, counted with multiplicity.
RECURSIVE Walks(_, _)
RECURSIVE WalksOver(_, _, _)
WalksOver(ids, i, fuel) ==
    IF i > Len(ids) THEN 0 ELSE Walks(ids[i], fuel) + WalksOver(ids, i + 1, fuel)

Walks(p, fuel) ==
    IF fuel = 0 THEN 0 ELSE 1 + WalksOver(graph[p], 1, fuel - 1)

\* The ids that resolving the entries `ids` of a relatedPointIds list fetches,
\* in order: each id, then what resolving its own list fetches.
RECURSIVE Descent(_, _, _)
Descent(ids, i, fuel) ==
    IF i > Len(ids) \/ fuel = 0 THEN <<>>
    ELSE <<ids[i]>> \o Descent(graph[ids[i]], 1, fuel - 1) \o Descent(ids, i + 1, fuel)

RECURSIVE RowsDescent(_, _)
RowsDescent(rows, i) ==
    IF i > Len(rows) THEN <<>>
    ELSE Descent(graph[rows[i].pointId], 1, RecursionLimit) \o RowsDescent(rows, i + 1)

\* How often the points reachable from p name q in their relatedPointIds.
References(p, q) ==
    LET Count(r) == Cardinality({i \in 1..Len(graph[r]) : graph[r][i] = q})
        RECURSIVE Sum(_)
        Sum(S) == IF S = {} THEN 0
                  ELSE LET r == CHOOSE x \in S : TRUE IN Count(r) + Sum(S \ {r})
    IN  Sum(Reachable(p))

\* obj.related_points mirrors the first entries of the relatedPointIds of its
\* data, in order, each a Point that mirrors all of its own.
RECURSIVE Mirrors(_, _)
Mirrors(obj, complete) ==
    /\ Len(obj.related_points) <= Len(obj.data.relatedPointIds)
    /\ complete => Len(obj.related_points) = Len(obj.data.relatedPointIds)
    /\ \A i \in 1..Len(obj.related_points) :
        /\ obj.related_points[i].point_id = obj.data.relatedPointIds[i].name
        /\ obj.related_points[i].data = PointData(obj.related_points[i].point_id)
        /\ obj.related_points[i].coordinates.source # None
        /\ Mirrors(obj.related_points[i], TRUE)

\* obj and the points below it were built from known projections.
RECURSIVE KnownProjections(_)
KnownProjections(obj) ==
    /\ obj.data.coordinates.projection \in DOMAIN projections
    /\ obj.coordinates = [source |-> "epsg:3021", dest |-> "epsg:4326"]
    /\ \A i \in 1..Len(obj.related_points) : KnownProjections(obj.related_points[i])

\* The Point objects the operation has finished and handed on.
Returned ==
    IF pc = "returned" /\ result.kind = "Point" THEN {result.value}
    ELSE IF pc = "returned" /\ op \in BatchOps THEN Range(result.value)
    ELSE {}

AuthenticatedPath(r) == r.url # url \o "/connect/token"

(***************************************************************************)
(* Properties.                                                             *)
(***************************************************************************)

\* C1: a batch response that holds a `message` field makes initialize_points
\* raise StokabAPIException carrying that message: the operation neither
\* returns a list nor raises any other error.
C1_MessageRaisesStokabAPIException ==
    (op \in BatchOps /\ response.kind = "message")
        => /\ pc = "raised"
           /\ exc = [type |-> "StokabAPIException", arg |-> response.message]

\* C2: every request other than the POST to /connect/token carries
\* Authorization: "<token_type> <token>" of the most recent successful
\* acquire_token, and the token POST is the only request without the header.
C2_RequestsCarryAcquiredHeader ==
    IF AuthenticatedPath(lastReq)
    THEN lastReq.headers = {<<"Authorization", goodHeader>>}
    ELSE lastReq.headers = {}

\* C3: the token is fetched once, at construction, and never renewed by the
\* client itself: a step that is not an explicit acquire_token call leaves
\* token, token_type, token_ttl, token_acquired and the number of requests to
\* /connect/token as they were, however much time has passed.
C3_TokenOnlyChangedByAcquire ==
    /\ tokenReqs = 1
    /\ [][op' # "acquire_token" => UNCHANGED <<session_vars, tokenReqs>>]_vars

\* A get_point that resolved a related point after the token's ttl had passed,
\* with the construction's token request still the only one.
C3_Witness ==
    /\ pc = "returned"
    /\ op = "get_point"
    /\ result.value.related_points # <<>>
    /\ tokenReqs = 1
    /\ clock >= token_acquired + token_ttl

\* C4: a Point built from a row of a batch response is not fetched by id; the
\* only fetches of the operation are those that resolve relatedPointIds, row
\* by row and depth first: none for [], exactly one (P2) for [{"name": "P2"}]
\* when P2 has no related points, P2's Point being the sole related point.
C4_BatchRowsNotFetched ==
    (op \in BatchOps /\ pc = "returned")
        => /\ fetched = RowsDescent(response.rows, 1)
           /\ Len(result.value) = Len(response.rows)
           /\ \A i \in 1..Len(response.rows) :
                /\ result.value[i].point_id = response.rows[i].pointId
                /\ result.value[i].data = response.rows[i]
                /\ response.rows[i].relatedPointIds = <<>>
                    => result.value[i].related_points = <<>>
                /\ Len(response.rows[i].relatedPointIds) = 1
                    => /\ Len(result.value[i].related_points) = 1
                       /\ result.value[i].related_points[1].point_id
                            = response.rows[i].relatedPointIds[1].name

\* A batch of one row P1 naming P2, which names nothing: P2 alone was fetched.
C4_Witness ==
    /\ op \in BatchOps
    /\ pc = "returned"
    /\ Len(response.rows) = 1
    /\ response.rows[1].pointId = "P1"
    /\ response.rows[1].relatedPointIds = <<[name |-> "P2"]>>
    /\ graph["P2"] = <<>>
    /\ fetched = <<"P2">>
    /\ result.value[1].related_points[1].point_id = "P2"

\* C5: cheapest() returns None for an empty list and otherwise the first
\* product whose total() is the minimum of the list, totals of 0 included.
C5_CheapestIsFirstMinimum ==
    op = "cheapest"
        => LET products == result.value.products
               c == result.value.cheapest
           IN  IF products = <<>> THEN c = 0
               ELSE /\ c \in 1..Len(products)
                    /\ \A j \in 1..Len(products) :
                        PriceTotal(products[c].price) <= PriceTotal(products[j].price)
                    /\ \A j \in 1..(c - 1) :
                        PriceTotal(products[j].price) > PriceTotal(products[c].price)

\* Totals [36, 0, 0]: the first of the two products of total 0 is returned.
C5_Witness ==
    /\ op = "cheapest"
    /\ Len(result.value.products) = 3
    /\ result.value.cheapest = 2
    /\ PriceTotal(result.value.products[1].price) = 36
    /\ PriceTotal(result.value.products[2].price) = 0
    /\ PriceTotal(result.value.products[3].price) = 0

\* C6: an unknown projection name makes Coordinates raise KeyError with no
\* coordinate pair produced, and the operation raises it: no Point in
\* progress, finished or returned was built from an unknown projection, no
\* point was fetched past one, and the caller gets no Point and no list.
C6_UnknownProjectionRaises ==
    /\ \A i \in 1..Len(stack) : KnownProjections(stack[i])
    /\ \A i \in 1..Len(points) : KnownProjections(points[i])
    /\ \A obj \in Returned : KnownProjections(obj)
    /\ \A i \in 1..Len(fetched) :
        proj[fetched[i]] \notin DOMAIN projections
            => /\ i = Len(fetched)
               /\ pc = "raised"
               /\ exc = KeyError(proj[fetched[i]])
    /\ (pc = "raised" /\ exc.type = "KeyError")
        => /\ exc.arg \notin DOMAIN projections
           /\ result = NoResult
    /\ (pc = "returned" /\ op = "get_point") => WellFormed(root)
    /\ (pc = "returned" /\ op \in BatchOps)
        => \A i \in 1..Len(response.rows) : WellFormed(response.rows[i].pointId)

\* A batch of two rows that raised KeyError at the first related point fetched.
C6_Witness ==
    /\ op \in BatchOps
    /\ pc = "raised"
    /\ exc = KeyError("WGS84")
    /\ Len(response.rows) = 2
    /\ Len(fetched) = 1
    /\ proj[fetched[1]] = "WGS84"

\* C7: the related_points of every Point mirror the relatedPointIds of its
\* data: same length, same order, each entry a fully built Point with the id
\* named, recursively; for a Point still being built, the entries so far.
C7_RelatedPointsMirrorIds ==
    /\ \A i \in 1..Len(stack) : Mirrors(stack[i], FALSE)
    /\ \A i \in 1..Len(points) : Mirrors(points[i], TRUE)
    /\ \A obj \in Returned : Mirrors(obj, TRUE)

\* A returned Point with two different related points.
C7_Witness ==
    /\ pc = "returned"
    /\ op = "get_point"
    /\ Len(result.value.related_points) = 2
    /\ result.value.related_points[1].point_id # result.value.related_points[2].point_id

\* C8 as claimed: get_point over an acyclic graph with N reachable points
\* sends N fetch-by-id requests.
C8_OneFetchPerReachablePoint ==
    (op = "get_point" /\ pc = "returned")
        => Len(fetched) = Cardinality(Reachable(root))

\* C8 as amended: get_point sends one fetch-by-id request per reference path
\* from the root; that is at least N, and N exactly when every reachable point
\* but the root is named once by the reachable points.
C8_OneFetchPerReferencePath ==
    (op = "get_point" /\ pc = "returned")
        => /\ Len(fetched) = Walks(root, RecursionLimit)
           /\ Len(fetched) >= Cardinality(Reachable(root))
           /\ (Len(fetched) = Cardinality(Reachable(root)))
                <=> (\A q \in Reachable(root) \ {root} : References(root, q) = 1)

\* Two reachable points, three fetches: the related point is named twice.
C8_Witness ==
    /\ op = "get_point"
    /\ pc = "returned"
    /\ Cardinality(Reachable(root)) = 2
    /\ Len(fetched) = 3

C10_FailedAcquireChangesNothing ==
    [][(op' = "acquire_token" /\ pc' = "raised") => UNCHANGED session_vars]_vars

=============================================================================
